---- MODULE Spec2Model ----
(***************************************************************************)
(* Inventory stock mutation of the ERP inventory system: the product       *)
(* table, the orders, the stock-movement ledger and the three units of     *)
(* work that change them (order placement, bulk stock adjustment, order    *)
(* cancellation), each running as one database transaction under           *)
(* per-product row locks, next to the plain product update of the REST     *)
(* API; and the React client: the axios interceptors that keep the session *)
(* alive, the bulk adjustment dialog and the reloading of the dashboard.   *)
(***************************************************************************)
EXTENDS Integers, Sequences, FiniteSets, TLC

\* ---------------------------------------------------------------- bounds
NumProducts == 2

NumTxns == 2

MaxLines == 2

MaxQty == 1

MaxDelta == 1

InitStock == 1

MaxStock == 2

MaxOrders == 2

MaxMoves == 3

MaxEdits == 1

NumCustomers == 2

NumRequests == 3

MaxRefreshes == 3

MaxClicks == 2

MaxChanges == 2

MaxRawLines == 3

MaxPosts == 2

Products == 1..NumProducts

\* ids a request may name: the catalogue and two ids that do not exist
ProductIds == 1..(NumProducts + 2)

Txns == 1..NumTxns

OrderIds == 1..MaxOrders

CustomerIds == 1..NumCustomers

ReqIds == 1..NumRequests

\* the database and the answer of the API
VARIABLES stock, orders, nextOrderId, movements, lock, txn, resp, edits, customers

\* the browser session of App.tsx: the stored tokens, the module variables
\* of the interceptors, the requests and token calls in flight, React's
\* authToken, and what happened so far
VARIABLES localStorage, refreshInFlight, authExpiredNotified, req, refreshPosts,
          login, authToken, session

\* the dashboard of App.tsx: React state of App and ProductList, the POSTs of
\* the dialogs and of the orders table that are in flight, the number of
\* stock changes the server has committed for them, and the state of the
\* data each component has loaded
VARIABLES refreshKey, isModalOpen, adjustOpen, bulkOpen, posting, dataVersion, loaded

\* the bulk adjustment dialog: React state of BulkAdjustStockModal, the lines
\* of a handleOk that awaits its product lookups, the payload of the POST in
\* flight, the message shown last, and how often the dialog has posted and
\* has called onSuccess
VARIABLES raw, submitting, lookups, payload, notice, calls

committed == <<stock, orders, movements>>

server == <<stock, orders, nextOrderId, movements, lock, txn, resp, edits, customers>>

browser == <<localStorage, refreshInFlight, authExpiredNotified, req, refreshPosts,
             login, authToken, session>>

dashboard == <<refreshKey, isModalOpen, adjustOpen, bulkOpen, posting, dataVersion, loaded>>

dialog == <<raw, submitting, lookups, payload, notice, calls>>

client == <<browser, dashboard, dialog>>

vars == <<server, client>>

\* ------------------------------------------------------------ data model
NoOrder == [status |-> "none", items |-> <<>>]

NoResp ==
  [op |-> "none", outcome |-> "none", ref |-> 0, missing |-> {}, violations |-> {}]

IdleTxn ==
  [pc |-> "idle", kind |-> "none", items |-> <<>>, oid |-> 0, i |-> 0, startedAt |-> 0,
   wstock |-> <<>>, wmoves |-> <<>>]

\* the lines a request may carry: every product id with every valid amount,
\* and one line with the amount 0
OrderLines ==
  [product_id : ProductIds, quantity : 1..MaxQty] \cup {[product_id |-> 1, quantity |-> 0]}

BulkLines ==
  [product_id : ProductIds, delta : ((-MaxDelta)..MaxDelta) \ {0}]
    \cup {[product_id |-> 1, delta |-> 0]}

OrderInputs == UNION {[1..n -> OrderLines] : n \in 0..MaxLines}

BulkInputs == UNION {[1..n -> BulkLines] : n \in 0..MaxLines}

StockMovementStaleNew(p, oid, prev, delta, reason) ==
  [product |-> p, order |-> oid, previous_stock |-> prev, delta |-> delta,
   new_stock |-> prev, reason |-> reason]

StockMovement(p, oid, prev, delta, reason) ==
  [product |-> p, order |-> oid, previous_stock |-> prev, delta |-> delta,
   new_stock |-> prev + delta, reason |-> reason]

\* the answer a caller gets: ref is the line that failed (place_order) or the
\* order the answer is about
Response(op, outcome, ref) ==
  [op |-> op, outcome |-> outcome, ref |-> ref, missing |-> {}, violations |-> {}]

\* ------------------------------------------------------------ unit of work
\* a read that ignores what the transaction itself has written
ReadStockCommitted(w, p) == stock[p]

\* what transaction w reads for product p: the row it has already loaded or
\* written, else the committed row
ReadStock(w, p) == IF p \in DOMAIN w.wstock THEN w.wstock[p] ELSE stock[p]

\* product ids named by the lines of a request
Referenced(adj) == {adj[k].product_id : k \in 1..Len(adj)}

\* rows the transactions in flight may still add to the ledger
Reserved == LET RECURSIVE Sum(_)
                Sum(S) == IF S = {} THEN 0
                          ELSE LET t == CHOOSE x \in S : TRUE
                               IN Len(txn[t].items) + Sum(S \ {t})
            IN Sum(Txns)

ReleaseLocks(t) == [p \in Products |-> IF lock[p] = t THEN 0 ELSE lock[p]]

\* Stock Mutator: the rejection test and the write with its ledger entry
WouldBeNegativeOffByOne(w, p, delta) == ReadStock(w, p) + delta < -1

WouldBeNegative(w, p, delta) == ReadStock(w, p) + delta < 0

ApplyDelta(w, p, delta, reason, oid) ==
  LET prev == ReadStock(w, p)
  IN [w EXCEPT !.wstock = (p :> (prev + delta)) @@ @,
               !.wmoves = Append(@, StockMovement(p, oid, prev, delta, reason))]

\* exclusive row lock on product p, kept until the unit of work ends; a
\* request whose row is locked by another one waits
CanLockUnchecked(t, p) == TRUE

CanLock(t, p) == lock[p] \in {0, t}

\* a plain read instead of select_for_update: no lock is taken
LockRowPlainRead(t, p) == lock

LockRow(t, p) == [lock EXCEPT ![p] = t]

\* a failure that leaves the rows written so far in the tables
RollbackKeepsWrites(t) ==
  /\ stock' = [p \in Products |-> ReadStock(txn[t], p)]
  /\ movements' = movements \o txn[t].wmoves
  /\ UNCHANGED orders

\* rollback of the unit of work: nothing it wrote reaches the tables
Rollback(t) == UNCHANGED <<stock, orders, movements>>

\* the unit of work of t fails and the caller gets the answer r
AbortWith(t, r) ==
  /\ Rollback(t)
  /\ lock' = ReleaseLocks(t)
  /\ txn' = [txn EXCEPT ![t] = IdleTxn]
  /\ resp' = r
  /\ UNCHANGED <<nextOrderId, edits, customers, client>>

Abort(t, op, outcome, ref) == AbortWith(t, Response(op, outcome, ref))

\* commit: the uncommitted writes become the rows every request sees
\* the commit saves the ledger rows but not the product rows
CommitStockKeepsOld(w) == stock

CommitStock(w) == [p \in Products |-> ReadStock(w, p)]

\* a new request is served by the first free worker
FreeWorker(t) ==
  /\ txn[t].pc = "idle"
  /\ \A u \in Txns : u < t => txn[u].pc # "idle"

\* ------------------------------------------------------------ place_order
OrderDeltaAdds(quantity) == quantity

OrderDelta(quantity) == 0 - quantity

\* only the empty list is refused
ValidOrderInputNonEmpty(items) == Len(items) > 0

ValidOrderInput(items) ==
  /\ Len(items) > 0
  /\ \A k \in 1..Len(items) : items[k].quantity > 0

PlaceOrderBegin(t, items) ==
  /\ FreeWorker(t)
  /\ IF ~ValidOrderInput(items)
     THEN /\ resp' = Response("place_order", "InvalidInput", 0)
          /\ UNCHANGED <<stock, orders, nextOrderId, movements, lock, txn, edits, customers, client>>
     ELSE /\ nextOrderId <= MaxOrders
          /\ Len(movements) + Reserved + Len(items) <= MaxMoves
          /\ txn' = [txn EXCEPT ![t] = [IdleTxn EXCEPT !.pc = "run", !.kind = "order",
                                                      !.items = items, !.oid = nextOrderId,
                                                      !.startedAt = Len(movements)]]
          /\ nextOrderId' = nextOrderId + 1
          /\ resp' = NoResp
          /\ UNCHANGED <<stock, orders, movements, lock, edits, customers, client>>

PlaceOrderLine(t) ==
  /\ txn[t].pc = "run" /\ txn[t].kind = "order"
  /\ txn[t].i < Len(txn[t].items)
  /\ LET w == txn[t]
         n == w.i + 1
         p == w.items[n].product_id
         q == w.items[n].quantity
     IN IF p \notin Products
        THEN Abort(t, "place_order", "ProductNotFound", n)
        ELSE /\ CanLock(t, p)
             /\ IF WouldBeNegative(w, p, OrderDelta(q))
                THEN Abort(t, "place_order", "InsufficientStock", n)
                ELSE /\ lock' = LockRow(t, p)
                     /\ txn' = [txn EXCEPT ![t] =
                                  [ApplyDelta(w, p, OrderDelta(q), "order", w.oid) EXCEPT !.i = n]]
                     /\ resp' = NoResp
                     /\ UNCHANGED <<stock, orders, nextOrderId, movements, edits, customers, client>>

\* one row for the order instead of one per line
PlaceOrderCommitFirstRow(t) ==
  /\ txn[t].pc = "run" /\ txn[t].kind = "order"
  /\ txn[t].i = Len(txn[t].items)
  /\ stock' = CommitStock(txn[t])
  /\ movements' = movements \o SubSeq(txn[t].wmoves, 1, 1)
  /\ orders' = [orders EXCEPT ![txn[t].oid] =
                  [status |-> "confirmed", items |-> txn[t].items]]
  /\ lock' = ReleaseLocks(t)
  /\ txn' = [txn EXCEPT ![t] = IdleTxn]
  /\ resp' = Response("place_order", "ok", txn[t].oid)
  /\ UNCHANGED <<nextOrderId, edits, customers, client>>

PlaceOrderCommit(t) ==
  /\ txn[t].pc = "run" /\ txn[t].kind = "order"
  /\ txn[t].i = Len(txn[t].items)
  /\ stock' = CommitStock(txn[t])
  /\ movements' = movements \o txn[t].wmoves
  /\ orders' = [orders EXCEPT ![txn[t].oid] =
                  [status |-> "confirmed", items |-> txn[t].items]]
  /\ lock' = ReleaseLocks(t)
  /\ txn' = [txn EXCEPT ![t] = IdleTxn]
  /\ resp' = Response("place_order", "ok", txn[t].oid)
  /\ UNCHANGED <<nextOrderId, edits, customers, client>>

\* ------------------------------------------------------------ cancel_order
CancelDeltaSubtracts(quantity) == 0 - quantity

CancelDelta(quantity) == quantity

AlreadyCancelledNever(oid) == FALSE

\* policy for a second cancellation: it is rejected
AlreadyCancelled(oid) == orders[oid].status = "cancelled"

CancelOrderBegin(t, oid) ==
  /\ FreeWorker(t)
  /\ IF oid \notin OrderIds \/ orders[oid].status = "none"
     THEN /\ resp' = Response("cancel_order", "OrderNotFound", oid)
          /\ UNCHANGED <<stock, orders, nextOrderId, movements, lock, txn, edits, customers, client>>
     ELSE IF AlreadyCancelled(oid)
     THEN /\ resp' = Response("cancel_order", "OrderAlreadyCancelled", oid)
          /\ UNCHANGED <<stock, orders, nextOrderId, movements, lock, txn, edits, customers, client>>
     ELSE /\ Len(movements) + Reserved + Len(orders[oid].items) <= MaxMoves
          /\ txn' = [txn EXCEPT ![t] = [IdleTxn EXCEPT !.pc = "run", !.kind = "cancel",
                                                      !.items = orders[oid].items, !.oid = oid,
                                                      !.startedAt = Len(movements)]]
          /\ resp' = NoResp
          /\ UNCHANGED <<stock, orders, nextOrderId, movements, lock, edits, customers, client>>

CancelOrderLine(t) ==
  /\ txn[t].pc = "run" /\ txn[t].kind = "cancel"
  /\ txn[t].i < Len(txn[t].items)
  /\ LET w == txn[t]
         n == w.i + 1
         p == w.items[n].product_id
         q == w.items[n].quantity
     IN /\ CanLock(t, p)
        /\ ReadStock(w, p) + CancelDelta(q) <= MaxStock
        /\ lock' = LockRow(t, p)
        /\ txn' = [txn EXCEPT ![t] =
                     [ApplyDelta(w, p, CancelDelta(q), "order_cancelled", w.oid) EXCEPT !.i = n]]
        /\ resp' = NoResp
        /\ UNCHANGED <<stock, orders, nextOrderId, movements, edits, customers, client>>

\* the status is saved, the restored stock and its rows are not
CancelOrderCommitStatusOnly(t) ==
  /\ txn[t].pc = "run" /\ txn[t].kind = "cancel"
  /\ txn[t].i = Len(txn[t].items)
  /\ orders' = [orders EXCEPT ![txn[t].oid].status = "cancelled"]
  /\ lock' = ReleaseLocks(t)
  /\ txn' = [txn EXCEPT ![t] = IdleTxn]
  /\ resp' = Response("cancel_order", "ok", txn[t].oid)
  /\ UNCHANGED <<stock, movements, nextOrderId, edits, customers, client>>

CancelOrderCommit(t) ==
  /\ txn[t].pc = "run" /\ txn[t].kind = "cancel"
  /\ txn[t].i = Len(txn[t].items)
  /\ stock' = CommitStock(txn[t])
  /\ movements' = movements \o txn[t].wmoves
  /\ orders' = [orders EXCEPT ![txn[t].oid].status = "cancelled"]
  /\ lock' = ReleaseLocks(t)
  /\ txn' = [txn EXCEPT ![t] = IdleTxn]
  /\ resp' = Response("cancel_order", "ok", txn[t].oid)
  /\ UNCHANGED <<nextOrderId, edits, customers, client>>

\* ------------------------------------------------------------ bulk_adjust
ValidBulkInput(adj) ==
  /\ Len(adj) > 0
  /\ \A k \in 1..Len(adj) : adj[k].delta # 0

\* no aggregation: only the first entry of the product counts
NetDeltaFirstEntry(adj, p) ==
  IF \E k \in 1..Len(adj) : adj[k].product_id = p
  THEN adj[CHOOSE k \in 1..Len(adj) :
             /\ adj[k].product_id = p
             /\ \A j \in 1..(k - 1) : adj[j].product_id # p].delta
  ELSE 0

\* net delta of product p over all entries of the batch
RECURSIVE NetDelta(_, _)
NetDelta(adj, p) ==
  IF adj = <<>> THEN 0
  ELSE (IF Head(adj).product_id = p THEN Head(adj).delta ELSE 0) + NetDelta(Tail(adj), p)

MissingProductIds(adj) == Referenced(adj) \ Products

NegativeProductsFirstOnly(w, adj) ==
  {p \in Referenced(adj) \cap Products :
     /\ \A q \in Referenced(adj) \cap Products : p <= q
     /\ ReadStock(w, p) + NetDelta(adj, p) < 0}

NegativeProducts(w, adj) ==
  {p \in Referenced(adj) \cap Products : ReadStock(w, p) + NetDelta(adj, p) < 0}

\* one Stock Mutator call per distinct product whose net delta is not zero,
\* in product order
\* body of the error for unknown ids: { message, missing_product_ids: [...] }
MissingIdsFirstOnly(adj) ==
  [Response("bulk_adjust", "ProductNotFound", 0) EXCEPT
     !.missing = {x \in MissingProductIds(adj) : \A y \in MissingProductIds(adj) : x <= y}]

MissingIds(adj) ==
  [Response("bulk_adjust", "ProductNotFound", 0) EXCEPT !.missing = MissingProductIds(adj)]

\* body of the error for a negative result: one object
\* { message, product_id, sku, current_stock, delta, computed_stock }
Violation(w, adj, p) ==
  [product_id |-> p, current_stock |-> ReadStock(w, p), delta |-> NetDelta(adj, p),
   computed_stock |-> ReadStock(w, p) + NetDelta(adj, p)]

NegativeStock(w, adj, p) ==
  [Response("bulk_adjust", "InsufficientStock", 0) EXCEPT
     !.violations = {Violation(w, adj, p)}]

RECURSIVE ApplyBatch(_, _, _)
ApplyBatch(w, adj, ps) ==
  IF ps = {} THEN w
  ELSE LET p == CHOOSE x \in ps : \A y \in ps : x <= y
           d == NetDelta(adj, p)
       IN ApplyBatch(IF d = 0 THEN w ELSE ApplyDelta(w, p, d, "manual_adjustment", 0),
                     adj, ps \ {p})

BulkAdjustBegin(t, adj) ==
  /\ FreeWorker(t)
  /\ IF ~ValidBulkInput(adj)
     THEN /\ resp' = Response("bulk_adjust", "InvalidInput", 0)
          /\ UNCHANGED <<stock, orders, nextOrderId, movements, lock, txn, edits, customers, client>>
     ELSE /\ Len(movements) + Reserved + Len(adj) <= MaxMoves
          /\ txn' = [txn EXCEPT ![t] = [IdleTxn EXCEPT !.pc = "run", !.kind = "bulk",
                                                      !.items = adj,
                                                      !.startedAt = Len(movements)]]
          /\ resp' = NoResp
          /\ UNCHANGED <<stock, orders, nextOrderId, movements, lock, edits, customers, client>>

\* rows of the batch this transaction has not selected for update yet
Unlocked(t) == {p \in Referenced(txn[t].items) \cap Products : p \notin DOMAIN txn[t].wstock}

BulkAdjustLock(t) ==
  /\ txn[t].pc = "run" /\ txn[t].kind = "bulk"
  /\ Unlocked(t) # {}
  /\ LET p == CHOOSE x \in Unlocked(t) : \A y \in Unlocked(t) : x <= y
     IN /\ CanLock(t, p)
        /\ lock' = LockRow(t, p)
        /\ txn' = [txn EXCEPT ![t].wstock = (p :> stock[p]) @@ @]
  /\ resp' = NoResp
  /\ UNCHANGED <<stock, orders, nextOrderId, movements, edits, customers, client>>

BulkAdjustApply(t) ==
  /\ txn[t].pc = "run" /\ txn[t].kind = "bulk"
  /\ Unlocked(t) = {}
  /\ LET adj == txn[t].items
     IN IF MissingProductIds(adj) # {}
        THEN AbortWith(t, MissingIds(adj))
        ELSE IF NegativeProducts(txn[t], adj) # {}
        THEN \E p \in NegativeProducts(txn[t], adj) : AbortWith(t, NegativeStock(txn[t], adj, p))
        ELSE LET w == ApplyBatch(txn[t], adj, Referenced(adj))
             IN /\ \A p \in Products : ReadStock(w, p) <= MaxStock
                /\ stock' = CommitStock(w)
                /\ movements' = movements \o w.wmoves
                /\ lock' = ReleaseLocks(t)
                /\ txn' = [txn EXCEPT ![t] = IdleTxn]
                /\ resp' = Response("bulk_adjust", "ok", 0)
                /\ UNCHANGED <<orders, nextOrderId, edits, customers, client>>

\* ------------------------------------------------------------ REST product update
\* PUT/PATCH /api/products/{id}/ writes the product row directly
ProductUpdate(p, v) ==
  /\ edits < MaxEdits
  /\ lock[p] = 0
  /\ stock[p] # v
  /\ stock' = [stock EXCEPT ![p] = v]
  /\ edits' = edits + 1
  /\ resp' = NoResp
  /\ UNCHANGED <<orders, nextOrderId, movements, lock, txn, customers, client>>

\* PUT/PATCH /api/orders/{id}/ writes the order row directly
OrderStatuses == {"draft", "confirmed", "cancelled"}

OrderUpdate(o, st) ==
  /\ edits < MaxEdits
  /\ orders[o].status \in OrderStatuses
  /\ orders[o].status # st
  /\ orders' = [orders EXCEPT ![o].status = st]
  /\ edits' = edits + 1
  /\ resp' = NoResp
  /\ UNCHANGED <<stock, nextOrderId, movements, lock, txn, customers, client>>

\* ------------------------------------------------------------ permissions
Users == {"anonymous", "user", "staff"}

SafeMethods == {"GET", "HEAD", "OPTIONS"}

WriteMethods == {"POST", "PUT", "PATCH", "DELETE"}

\* any authenticated user may write
IsAuthenticatedOrReadOnly(user, method) == method \in SafeMethods \/ user # "anonymous"

IsStaffOrReadOnly(user, method) == method \in SafeMethods \/ user = "staff"

\* a request the permission class turns down, or a read: no row changes
Answer(view, outcome) ==
  /\ resp' = Response(view, outcome, 0)
  /\ UNCHANGED <<stock, orders, nextOrderId, movements, lock, txn, edits, customers, client>>

\* /api/products/ and /api/products/{id}/; the catalogue is fixed here, so of
\* the permitted writes only the update of a product row is a step
ProductsView(user, method, p, v) ==
  IF ~IsStaffOrReadOnly(user, method) THEN Answer("products", "Forbidden")
  ELSE IF method \in SafeMethods THEN Answer("products", "ok")
  ELSE method \in {"PUT", "PATCH"} /\ ProductUpdate(p, v)

\* POST /api/products/bulk_adjust_stock/
BulkAdjustView(user, adj) ==
  IF ~IsStaffOrReadOnly(user, "POST") THEN Answer("bulk_adjust_stock", "Forbidden")
  ELSE BulkAdjustBegin(1, adj)

NoCustomer == "none"

CustomerNames == {"a", "b"}

\* /api/customers/ and /api/customers/{id}/
CustomersView(user, method, c, name) ==
  IF ~IsStaffOrReadOnly(user, method) THEN Answer("customers", "Forbidden")
  ELSE IF method \in SafeMethods THEN Answer("customers", "ok")
  ELSE /\ edits < MaxEdits
       /\ \/ /\ method = "POST" /\ customers[c] = NoCustomer
             /\ customers' = [customers EXCEPT ![c] = name]
          \/ /\ method \in {"PUT", "PATCH"} /\ customers[c] \notin {NoCustomer, name}
             /\ customers' = [customers EXCEPT ![c] = name]
          \/ /\ method = "DELETE" /\ customers[c] # NoCustomer
             /\ customers' = [customers EXCEPT ![c] = NoCustomer]
       /\ edits' = edits + 1
       /\ resp' = NoResp
       /\ UNCHANGED <<stock, orders, nextOrderId, movements, lock, txn, client>>

\* ------------------------------------------------------------ browser session
\* App.tsx: the request and response interceptors of axios, login and logout
NoToken == 0

NoPromise == 0

StoredNothing == [accessToken |-> NoToken, refreshToken |-> FALSE, authUsername |-> FALSE]

\* a request of a component that has not been sent yet
NewRequest ==
  [pc |-> "new", retry |-> FALSE, Authorization |-> NoToken, awaits |-> NoPromise, sends |-> 0]

\* what happened so far: access tokens issued by the server, refresh promises
\* created, auth:expired events dispatched, login and logout clicks, and
\* whether the last of login and logout was a logout
NoHistory == [issued |-> 0, refreshes |-> 0, dispatched |-> 0, clicks |-> 0, loggedOut |-> FALSE]

ApiUrl == "/api/products/"

LoginUrl == "/api/token/"

RefreshUrl == "/api/token/refresh/"

\* url.includes('/api/token/')
IsTokenEndpoint(url) == url \in {LoginUrl, RefreshUrl}

\* request interceptor: the Authorization header of a request that is sent now
AuthorizationHeader(url) ==
  IF localStorage.accessToken # NoToken /\ ~IsTokenEndpoint(url)
  THEN localStorage.accessToken
  ELSE NoToken

\* the retry flag of the request is not looked at
RecoverableIgnoresRetry(status, retry, url) == status = 401 /\ ~IsTokenEndpoint(url)

\* response interceptor: the failure is answered with a refresh and a retry
Recoverable(status, retry, url) == status = 401 /\ ~retry /\ ~IsTokenEndpoint(url)

\* every 401 handler posts a refresh of its own
StartsRefreshAlways == TRUE

\* if (!refreshInFlight)
StartsRefresh == refreshInFlight = NoPromise

\* the session is cleared although the user was told before
SessionExpiredFlagIgnored ==
  /\ authExpiredNotified' = TRUE
  /\ localStorage' = StoredNothing
  /\ session' = [session EXCEPT !.dispatched = @ + 1]
  /\ authToken' = NoToken

\* refresh failed or no refresh token: clear the session and dispatch
\* auth:expired, whose listener resets React's authToken, unless that was
\* done before
SessionExpired ==
  IF ~authExpiredNotified
  THEN /\ authExpiredNotified' = TRUE
       /\ localStorage' = StoredNothing
       /\ session' = [session EXCEPT !.dispatched = @ + 1]
       /\ authToken' = NoToken
  ELSE UNCHANGED <<authExpiredNotified, localStorage, session, authToken>>

\* the state after the page was loaded, with or without a stored session
PageLoad(stored) ==
  /\ localStorage = IF stored
                    THEN [accessToken |-> 1, refreshToken |-> TRUE, authUsername |-> TRUE]
                    ELSE StoredNothing
  /\ refreshInFlight = NoPromise
  /\ authExpiredNotified = FALSE
  /\ req = [r \in ReqIds |-> NewRequest]
  /\ refreshPosts = {}
  /\ login = "idle"
  /\ authToken = IF stored THEN 1 ELSE NoToken
  /\ session = [NoHistory EXCEPT !.issued = IF stored THEN 1 ELSE 0]

\* a component sends an API request
Send(r) ==
  /\ req[r].pc = "new"
  /\ req' = [req EXCEPT ![r] = [@ EXCEPT !.pc = "sent", !.sends = 1,
                                         !.Authorization = AuthorizationHeader(ApiUrl)]]
  /\ UNCHANGED <<localStorage, refreshInFlight, authExpiredNotified, refreshPosts,
                 login, authToken, session, server, dashboard, dialog>>

\* the answer to request r arrives and runs through the response interceptor
Respond(r, status) ==
  /\ req[r].pc = "sent"
  /\ IF status = 200
     THEN /\ req' = [req EXCEPT ![r].pc = "resolved"]
          /\ UNCHANGED <<localStorage, refreshInFlight, authExpiredNotified, refreshPosts,
                         authToken, session>>
     ELSE IF ~Recoverable(status, req[r].retry, ApiUrl)
     THEN /\ req' = [req EXCEPT ![r].pc = "rejected"]
          /\ UNCHANGED <<localStorage, refreshInFlight, authExpiredNotified, refreshPosts,
                         authToken, session>>
     ELSE IF localStorage.refreshToken
     THEN IF StartsRefresh
          THEN /\ session.refreshes < MaxRefreshes
               /\ LET k == session.refreshes + 1
                  IN /\ refreshInFlight' = k
                     /\ refreshPosts' = refreshPosts \cup {k}
                     /\ session' = [session EXCEPT !.refreshes = k]
                     /\ req' = [req EXCEPT ![r] = [@ EXCEPT !.pc = "await", !.retry = TRUE,
                                                            !.awaits = k]]
               /\ UNCHANGED <<localStorage, authExpiredNotified, authToken>>
          ELSE /\ req' = [req EXCEPT ![r] = [@ EXCEPT !.pc = "await", !.retry = TRUE,
                                                      !.awaits = refreshInFlight]]
               /\ UNCHANGED <<localStorage, refreshInFlight, authExpiredNotified,
                              refreshPosts, authToken, session>>
     ELSE /\ SessionExpired
          /\ req' = [req EXCEPT ![r] = [@ EXCEPT !.pc = "rejected", !.retry = TRUE]]
          /\ UNCHANGED <<refreshInFlight, refreshPosts>>
  /\ UNCHANGED <<login, server, dashboard, dialog>>

\* the requests whose 401 handler awaits promise k
Awaiting(k) == {r \in ReqIds : req[r].pc = "await" /\ req[r].awaits = k}

\* POST /api/token/refresh/ of promise k settles: with a new access token,
\* without one, or with a 401 that the response interceptor rejects; the
\* promise clears refreshInFlight and every handler that awaits it goes on
RefreshSettles(k, outcome) ==
  /\ k \in refreshPosts
  /\ outcome = "401" => ~Recoverable(401, FALSE, RefreshUrl)
  /\ refreshPosts' = refreshPosts \ {k}
  /\ refreshInFlight' = NoPromise
  /\ IF outcome = "access"
     THEN LET newAccess == session.issued + 1
          IN /\ session' = [session EXCEPT !.issued = newAccess]
             /\ localStorage' = IF Awaiting(k) = {} THEN localStorage
                                ELSE [localStorage EXCEPT !.accessToken = newAccess]
             /\ req' = [r \in ReqIds |->
                          IF r \in Awaiting(k)
                          THEN [req[r] EXCEPT !.pc = "sent", !.awaits = NoPromise,
                                              !.sends = @ + 1, !.Authorization = newAccess]
                          ELSE req[r]]
             /\ UNCHANGED <<authExpiredNotified, authToken>>
     ELSE /\ IF Awaiting(k) = {}
             THEN UNCHANGED <<authExpiredNotified, localStorage, session, authToken>>
             ELSE SessionExpired
          /\ req' = [r \in ReqIds |->
                       IF r \in Awaiting(k)
                       THEN [req[r] EXCEPT !.pc = "rejected", !.awaits = NoPromise]
                       ELSE req[r]]
  /\ UNCHANGED <<login, server, dashboard, dialog>>

\* handleLoginSubmit up to its await: POST /api/token/
LoginSubmit ==
  /\ login = "idle"
  /\ authToken = NoToken
  /\ session.clicks < MaxClicks
  /\ login' = "sent"
  /\ session' = [session EXCEPT !.clicks = @ + 1]
  /\ UNCHANGED <<localStorage, refreshInFlight, authExpiredNotified, req, refreshPosts,
                 authToken, server, dashboard, dialog>>

\* handleLoginSubmit after its await: the tokens are stored, or the failure,
\* which the response interceptor rejects, is shown
LoginSettles(ok) ==
  /\ login = "sent"
  /\ ~ok => ~Recoverable(401, FALSE, LoginUrl)
  /\ login' = "idle"
  /\ IF ok
     THEN LET access == session.issued + 1
          IN /\ localStorage' = [accessToken |-> access, refreshToken |-> TRUE,
                                 authUsername |-> TRUE]
             /\ authToken' = access
             /\ authExpiredNotified' = FALSE
             /\ session' = [session EXCEPT !.issued = access, !.loggedOut = FALSE]
     ELSE UNCHANGED <<localStorage, authToken, authExpiredNotified, session>>
  /\ UNCHANGED <<refreshInFlight, req, refreshPosts, server, dashboard, dialog>>

\* handleLogout
Logout ==
  /\ authToken # NoToken
  /\ session.clicks < MaxClicks
  /\ localStorage' = StoredNothing
  /\ authToken' = NoToken
  /\ authExpiredNotified' = FALSE
  /\ session' = [session EXCEPT !.clicks = @ + 1, !.loggedOut = TRUE]
  /\ UNCHANGED <<refreshInFlight, req, refreshPosts, login, server, dashboard, dialog>>

\* ---------------------------------------------------------- dashboard
\* the components whose successful POST changes stock
Actions == {"CreateOrderModal", "AdjustStockModal", "BulkAdjustStockModal", "OrdersPage"}

\* the components that show stock and are keyed by refreshKey
StockViews == {"DashboardSummary", "LowStockTable", "ProductList"}

NotPosting == -1

\* the state after the first render: every component has loaded its data
DashInit ==
  /\ refreshKey = 0
  /\ isModalOpen = FALSE
  /\ adjustOpen = FALSE
  /\ bulkOpen = FALSE
  /\ posting = [a \in Actions |-> NotPosting]
  /\ dataVersion = 0
  /\ loaded = [c \in StockViews |-> 0]

\* setRefreshKey((k) => k + 1): the keyed components are mounted anew, each
\* loads its data in its mount effect, and the new ProductList starts with
\* its bulk dialog closed; version is the state of the server's data
SetRefreshKey(version) ==
  /\ refreshKey' = refreshKey + 1
  /\ loaded' = [c \in StockViews |-> version]
  /\ bulkOpen' = FALSE

\* New Order, Adjust stock of a row, Bulk adjust: the dialog opens
OpenDialog(a) ==
  /\ a # "OrdersPage"
  /\ isModalOpen' = IF a = "CreateOrderModal" THEN TRUE ELSE isModalOpen
  /\ adjustOpen' = IF a = "AdjustStockModal" THEN TRUE ELSE adjustOpen
  /\ bulkOpen' = IF a = "BulkAdjustStockModal" THEN TRUE ELSE bulkOpen
  /\ <<isModalOpen', adjustOpen', bulkOpen'>> # <<isModalOpen, adjustOpen, bulkOpen>>
  /\ UNCHANGED <<refreshKey, posting, dataVersion, loaded, browser, server, dialog>>

\* onCancel of a dialog
CloseDialog(a) ==
  /\ a # "OrdersPage"
  /\ isModalOpen' = IF a = "CreateOrderModal" THEN FALSE ELSE isModalOpen
  /\ adjustOpen' = IF a = "AdjustStockModal" THEN FALSE ELSE adjustOpen
  /\ bulkOpen' = IF a = "BulkAdjustStockModal" THEN FALSE ELSE bulkOpen
  /\ <<isModalOpen', adjustOpen', bulkOpen'>> # <<isModalOpen, adjustOpen, bulkOpen>>
  /\ UNCHANGED <<refreshKey, posting, dataVersion, loaded, browser, server, dialog>>

\* the dialog of a is open; the orders table is always shown
IsOpen(a) ==
  CASE a = "CreateOrderModal" -> isModalOpen
    [] a = "AdjustStockModal" -> adjustOpen
    [] a = "BulkAdjustStockModal" -> bulkOpen
    [] OTHER -> TRUE

\* the POSTs in flight
InFlight == {a \in Actions : posting[a] # NotPosting}

\* the handler of a up to its await: the POST is sent by the component
\* instance that was rendered under the current refreshKey
Submit(a) ==
  /\ IsOpen(a)
  /\ posting[a] = NotPosting
  /\ dataVersion + Cardinality(InFlight) < MaxChanges
  /\ posting' = [posting EXCEPT ![a] = refreshKey]
  /\ UNCHANGED <<refreshKey, isModalOpen, adjustOpen, bulkOpen, dataVersion, loaded,
                 browser, server, dialog>>

\* the handler of a after its await. A failed POST is reported and nothing
\* is reloaded. After a successful one CreateOrderModal and AdjustStockModal
\* call onSuccess, which App binds to setRefreshKey, and onClose; OrdersPage
\* calls onDataChanged, bound to setRefreshKey as well; BulkAdjustStockModal
\* calls the onSuccess of ProductList, which is fetchProducts(page) of the
\* instance that sent the POST followed by onDataChanged?.(), a prop that
\* App does not pass, and onClose
Settles(a, ok) ==
  /\ posting[a] # NotPosting
  /\ posting' = [posting EXCEPT ![a] = NotPosting]
  /\ IF ~ok
     THEN UNCHANGED <<refreshKey, isModalOpen, adjustOpen, bulkOpen, dataVersion, loaded>>
     ELSE /\ dataVersion' = dataVersion + 1
          /\ IF a = "BulkAdjustStockModal"
             THEN /\ loaded' = IF posting[a] = refreshKey
                               THEN [loaded EXCEPT !["ProductList"] = dataVersion']
                               ELSE loaded
                  /\ bulkOpen' = IF posting[a] = refreshKey THEN FALSE ELSE bulkOpen
                  /\ UNCHANGED <<refreshKey, isModalOpen, adjustOpen>>
             ELSE /\ SetRefreshKey(dataVersion')
                  /\ isModalOpen' = IF a = "CreateOrderModal" THEN FALSE ELSE isModalOpen
                  /\ adjustOpen' = IF a = "AdjustStockModal" THEN FALSE ELSE adjustOpen
  /\ UNCHANGED <<browser, server, dialog>>

\* login, logout and the listener of auth:expired call setRefreshKey too
SessionChanges ==
  /\ refreshKey < MaxChanges
  /\ SetRefreshKey(dataVersion)
  /\ UNCHANGED <<isModalOpen, adjustOpen, posting, dataVersion, browser, server, dialog>>

NextDash ==
  \/ \E a \in Actions : OpenDialog(a)
  \/ \E a \in Actions : CloseDialog(a)
  \/ \E a \in Actions : Submit(a)
  \/ \E a \in Actions, ok \in BOOLEAN : Settles(a, ok)
  \/ SessionChanges

\* ------------------------------------------------- bulk adjust dialog
\* the first part of a line: a string of digits that reads as the number n,
\* or the SKU of catalogue entry n; entry NumProducts + 1 is no product
Keys == [digits : BOOLEAN, n : 1..(NumProducts + 1)]

NoKey == [digits |-> FALSE, n |-> 0]

\* the second part of a line, as typed
DeltaStrs == {"1", "-1", "0", "1.5", "x"}

\* a line of the textarea after trim() and split(/[\t, ]+/): whether it
\* starts with '#', its first part and its second part; NoKey and "" stand
\* for a part that is not there
BlankLine == [hash |-> FALSE, key |-> NoKey, deltaStr |-> ""]

CommentLine == [hash |-> TRUE, key |-> NoKey, deltaStr |-> ""]

Lines ==
  {BlankLine, CommentLine}
    \cup {[hash |-> FALSE, key |-> [digits |-> FALSE, n |-> 1], deltaStr |-> ""]}
    \cup [hash : {FALSE}, key : Keys, deltaStr : DeltaStrs]

RawTexts == UNION {[1..n -> Lines] : n \in 0..MaxRawLines}

\* a JavaScript number in halves, or NaN
NaN == [nan |-> TRUE, halves |-> 0]

\* Number(deltaStr)
Number(deltaStr) ==
  CASE deltaStr = "1" -> [nan |-> FALSE, halves |-> 2]
    [] deltaStr = "-1" -> [nan |-> FALSE, halves |-> -2]
    [] deltaStr = "0" -> [nan |-> FALSE, halves |-> 0]
    [] deltaStr = "1.5" -> [nan |-> FALSE, halves |-> 3]
    [] OTHER -> NaN

IsFinite(x) == ~x.nan

IsInteger(x) == ~x.nan /\ x.halves % 2 = 0

\* parseLines, one line: skipped, an error, or a parsed line
ParseLine(line, lineNo) ==
  IF line.key = NoKey \/ line.hash
  THEN [kind |-> "skip", key |-> NoKey, delta |-> 0, lineNo |-> lineNo]
  ELSE IF line.deltaStr = ""
  THEN [kind |-> "error", key |-> line.key, delta |-> 0, lineNo |-> lineNo]
  ELSE LET deltaNum == Number(line.deltaStr)
       IN IF ~IsFinite(deltaNum) \/ ~IsInteger(deltaNum)
          THEN [kind |-> "error", key |-> line.key, delta |-> 0, lineNo |-> lineNo]
          ELSE IF deltaNum.halves = 0
          THEN [kind |-> "error", key |-> line.key, delta |-> 0, lineNo |-> lineNo]
          ELSE [kind |-> "parsed", key |-> line.key, delta |-> deltaNum.halves \div 2,
                lineNo |-> lineNo]

IsParsed(x) == x.kind = "parsed"

IsError(x) == x.kind = "error"

parseLines(rawText) ==
  LET results == [i \in 1..Len(rawText) |-> ParseLine(rawText[i], i)]
  IN [parsed |-> SelectSeq(results, IsParsed), errors |-> SelectSeq(results, IsError)]

NoProduct == [id |-> 0, stock |-> 0]

\* GET /api/products/?sku=: the first product of the answer, or null
fetchProductBySku(key) ==
  IF key.n \in Products THEN [id |-> key.n, stock |-> stock[key.n]] ELSE NoProduct

\* GET /api/products/<id>/: the product, or undefined after a 404
fetchProductById(key) ==
  IF key.n \in Products THEN [id |-> key.n, stock |-> stock[key.n]] ELSE NoProduct

\* the product a parsed line names
ProductOf(item) ==
  IF item.key.digits THEN fetchProductById(item.key) ELSE fetchProductBySku(item.key)

\* the place of product id in agg, 0 if it has none
Slot(agg, id) ==
  IF \E k \in 1..Len(agg) : agg[k].product_id = id
  THEN CHOOSE k \in 1..Len(agg) : agg[k].product_id = id
  ELSE 0

\* every line is counted under its own key
AggregateByKey(parsed) ==
  [i \in 1..Len(parsed) |->
     [product_id |-> ProductOf(parsed[i]).id, delta |-> parsed[i].delta,
      currentStock |-> ProductOf(parsed[i]).stock]]

\* aggregate per product_id: agg in the order of insertion
RECURSIVE Aggregate(_)
Aggregate(parsed) ==
  IF parsed = <<>>
  THEN <<>>
  ELSE LET agg == Aggregate(SubSeq(parsed, 1, Len(parsed) - 1))
           item == parsed[Len(parsed)]
           p == ProductOf(item)
           k == Slot(agg, p.id)
       IN IF k = 0
          THEN Append(agg, [product_id |-> p.id, delta |-> item.delta,
                            currentStock |-> p.stock])
          ELSE [agg EXCEPT ![k].delta = @ + item.delta]

NonZero(x) == x.delta # 0

\* adjustments: the entries of agg whose delta is not 0
Adjustments(agg) == SelectSeq(agg, NonZero)

\* the precheck is skipped
NegativeNever(adjustments) == FALSE

\* negative: an adjustment that would leave less than 0 of the stock known
Negative(adjustments) ==
  \E k \in 1..Len(adjustments) : adjustments[k].currentStock + adjustments[k].delta < 0

\* the body of the POST
Body(adjustments) ==
  [k \in 1..Len(adjustments) |->
     [product_id |-> adjustments[k].product_id, delta |-> adjustments[k].delta]]

\* the keys handleOk looks up
KeysOf(parsed) == {parsed[i].key : i \in 1..Len(parsed)}

NoCalls == [posts |-> 0, onSuccess |-> 0]

\* the dialog with text in its textarea
DialogInit(text) ==
  /\ raw = text
  /\ submitting = FALSE
  /\ lookups = <<>>
  /\ payload = <<>>
  /\ notice = "none"
  /\ calls = NoCalls

\* handleOk up to its first await: the lines are parsed; with an error or
\* without a line it returns, else the lookups are sent
HandleOk ==
  /\ bulkOpen
  /\ ~submitting
  /\ calls.posts < MaxPosts
  /\ LET r == parseLines(raw)
     IN IF r.errors # <<>>
        THEN /\ notice' = "error"
             /\ UNCHANGED <<submitting, lookups>>
        ELSE IF r.parsed = <<>>
        THEN /\ notice' = "warning"
             /\ UNCHANGED <<submitting, lookups>>
        ELSE /\ submitting' = TRUE
             /\ lookups' = r.parsed
             /\ notice' = "none"
  /\ UNCHANGED <<raw, payload, calls, browser, dashboard, server>>

\* handleOk from the answers of its lookups to the POST: the lookups of the
\* keys in failing fail, the others are answered from the catalogue
LookupsSettle(failing) ==
  /\ lookups # <<>>
  /\ failing \subseteq KeysOf(lookups)
  /\ lookups' = <<>>
  /\ LET unresolved == {k \in KeysOf(lookups) :
                          IF k.digits THEN fetchProductById(k) = NoProduct
                                      ELSE fetchProductBySku(k) = NoProduct}
         adjustments == Adjustments(Aggregate(lookups))
     IN IF failing # {} \/ unresolved # {}
        THEN /\ notice' = "error"
             /\ submitting' = FALSE
             /\ UNCHANGED <<payload, calls>>
        ELSE IF adjustments = <<>>
        THEN /\ notice' = "warning"
             /\ submitting' = FALSE
             /\ UNCHANGED <<payload, calls>>
        ELSE IF Negative(adjustments)
        THEN /\ notice' = "error"
             /\ submitting' = FALSE
             /\ UNCHANGED <<payload, calls>>
        ELSE /\ payload' = Body(adjustments)
             /\ calls' = [calls EXCEPT !.posts = @ + 1]
             /\ UNCHANGED <<notice, submitting>>
  /\ UNCHANGED <<raw, browser, dashboard, server>>

\* handleOk after the POST: success clears the textarea and calls onSuccess
\* and onClose, failure shows the error
PostSettles(ok) ==
  /\ payload # <<>>
  /\ payload' = <<>>
  /\ submitting' = FALSE
  /\ IF ok
     THEN /\ notice' = "success"
          /\ raw' = <<>>
          /\ calls' = [calls EXCEPT !.onSuccess = @ + 1]
          /\ bulkOpen' = FALSE
     ELSE /\ notice' = "error"
          /\ UNCHANGED <<raw, calls, bulkOpen>>
  /\ UNCHANGED <<lookups, refreshKey, isModalOpen, adjustOpen, posting, dataVersion,
                 loaded, browser, server>>

NextModal ==
  \/ OpenDialog("BulkAdjustStockModal")
  \/ CloseDialog("BulkAdjustStockModal")
  \/ HandleOk
  \/ \E failing \in SUBSET Keys : LookupsSettle(failing)
  \/ \E ok \in BOOLEAN : PostSettles(ok)

\* ------------------------------------------------------------ model
ServerInit ==
  /\ stock = [p \in Products |-> InitStock]
  /\ orders = [o \in OrderIds |-> NoOrder]
  /\ nextOrderId = 1
  /\ movements = <<>>
  /\ lock = [p \in Products |-> 0]
  /\ txn = [t \in Txns |-> IdleTxn]
  /\ resp = NoResp
  /\ edits = 0
  /\ customers = [c \in CustomerIds |-> IF c = 1 THEN "a" ELSE NoCustomer]

\* the client has just loaded the page, with no session stored
ClientInit == PageLoad(FALSE) /\ DashInit /\ DialogInit(<<>>)

Init == ServerInit /\ ClientInit

\* the requests served by the workers of W
Requests(W) ==
  \/ \E t \in W, items \in OrderInputs : PlaceOrderBegin(t, items)
  \/ \E t \in W : PlaceOrderLine(t)
  \/ \E t \in W : PlaceOrderCommit(t)
  \/ \E t \in W, oid \in 1..(MaxOrders + 1) : CancelOrderBegin(t, oid)
  \/ \E t \in W : CancelOrderLine(t)
  \/ \E t \in W : CancelOrderCommit(t)
  \/ \E t \in W, adj \in BulkInputs : BulkAdjustBegin(t, adj)
  \/ \E t \in W : BulkAdjustLock(t)
  \/ \E t \in W : BulkAdjustApply(t)

Next == Requests(Txns)

Spec == Init /\ [][Next]_vars

\* the REST API used by one client at a time: the three operations and the
\* plain product update
NextApi ==
  \/ Requests({1})
  \/ \E p \in Products, v \in 0..MaxStock : ProductUpdate(p, v)
  \/ \E o \in OrderIds, st \in OrderStatuses : OrderUpdate(o, st)

SpecApi == Init /\ [][NextApi]_vars

\* batches of at most one line
SmallBatches == {adj \in BulkInputs : Len(adj) <= 1}

\* the product and customer endpoints called by users of every role
NextRbac ==
  \/ \E user \in Users, method \in SafeMethods \cup WriteMethods,
        p \in Products, v \in 0..MaxStock : ProductsView(user, method, p, v)
  \/ \E user \in Users, method \in SafeMethods \cup WriteMethods,
        c \in CustomerIds, name \in CustomerNames : CustomersView(user, method, c, name)
  \/ \E user \in Users, adj \in SmallBatches : BulkAdjustView(user, adj)
  \/ BulkAdjustLock(1)
  \/ BulkAdjustApply(1)

SpecRbac == Init /\ [][NextRbac]_vars

\* the browser session: requests of the components, the answers of the server,
\* login and logout, from a page load with or without a stored session
InitAuth == ServerInit /\ DashInit /\ DialogInit(<<>>) /\ \E stored \in BOOLEAN : PageLoad(stored)

NextAuth ==
  \/ \E r \in ReqIds : Send(r)
  \/ \E r \in ReqIds, status \in {200, 401, 500} : Respond(r, status)
  \/ \E k \in 1..MaxRefreshes, outcome \in {"access", "none", "401"} : RefreshSettles(k, outcome)
  \/ LoginSubmit
  \/ \E ok \in BOOLEAN : LoginSettles(ok)
  \/ Logout

\* every call in flight is answered at some time
AuthFairness ==
  /\ \A r \in ReqIds : WF_vars(\E status \in {200, 401, 500} : Respond(r, status))
  /\ \A k \in 1..MaxRefreshes :
       WF_vars(\E outcome \in {"access", "none", "401"} : RefreshSettles(k, outcome))

SpecAuth == InitAuth /\ [][NextAuth]_vars /\ AuthFairness

\* the dashboard used by one person
SpecDash == Init /\ [][NextDash]_vars

\* the bulk adjustment dialog with any text in its textarea
InitModal == ServerInit /\ PageLoad(FALSE) /\ DashInit /\ \E text \in RawTexts : DialogInit(text)

SpecModal == InitModal /\ [][NextModal]_vars

\* ------------------------------------------------------------ properties
\* rows added to the ledger by a step
NewMoves == SubSeq(movements', Len(movements) + 1, Len(movements'))

\* every StockMovement row, committed or written by a unit of work in flight
AllRows ==
  {movements[k] : k \in 1..Len(movements)}
    \cup UNION {{txn[t].wmoves[k] : k \in 1..Len(txn[t].wmoves)} : t \in Txns}

\* C1: in every reachable state, whatever place_order, bulk_adjust and
\* cancel_order calls ran, succeeded or failed, every product's stock is an
\* integer >= 0.
C1_StockNeverNegative == \A p \in Products : stock[p] \in Nat

\* a mutation was rejected for insufficient stock while a product is sold out
C1_Witness ==
  /\ resp.outcome = "InsufficientStock"
  /\ movements # <<>>
  /\ \E p \in Products : stock[p] = 0

\* a step of a place_order call: its begin, one of its lines, its end
PlaceOrderStep ==
  \/ resp'.op = "place_order"
  \/ \E t \in Txns : /\ txn'[t] # txn[t]
                     /\ "order" \in {txn[t].kind, txn'[t].kind}

\* C2: a place_order call that fails on any line, also after earlier lines of
\* the same order were applied, leaves the Order, OrderItem and StockMovement
\* rows and every product's stock as they were: no step of the call other
\* than its successful end changes them.
C2_PlaceOrderAtomic ==
  [][(PlaceOrderStep /\ ~(resp'.op = "place_order" /\ resp'.outcome = "ok"))
       => UNCHANGED <<stock, orders, movements>>]_vars

\* an order was rejected on its second line, after the first was applied
C2_Witness ==
  /\ resp.op = "place_order"
  /\ resp.outcome \in {"ProductNotFound", "InsufficientStock"}
  /\ resp.ref = 2

\* net delta of product p in a batch, summed entry by entry
RECURSIVE SumOver(_, _, _)
SumOver(adj, p, K) ==
  IF K = {} THEN 0
  ELSE LET k == CHOOSE x \in K : TRUE
       IN adj[k].delta + SumOver(adj, p, K \ {k})

BatchNet(adj, p) == SumOver(adj, p, {k \in 1..Len(adj) : adj[k].product_id = p})

\* the worker whose bulk_adjust call ends in this step
BulkEnds(t) == txn[t].kind = "bulk" /\ txn[t].pc = "run" /\ txn'[t].pc = "idle"

\* C3: a bulk_adjust batch that names an unknown product id, or that would
\* leave a product with negative stock, is rejected; the stock of every
\* product is unchanged and no StockMovement is added.
C3_BulkAdjustAtomic ==
  [][\A t \in Txns :
       (/\ BulkEnds(t)
        /\ \/ \E k \in 1..Len(txn[t].items) : txn[t].items[k].product_id \notin Products
           \/ \E p \in Products : stock[p] + BatchNet(txn[t].items, p) < 0)
       => /\ resp'.op = "bulk_adjust"
          /\ resp'.outcome \in {"ProductNotFound", "InsufficientStock"}
          /\ UNCHANGED <<stock, orders, movements>>]_vars

\* a batch was rejected because a product would have gone negative
C3_Witness ==
  /\ resp.op = "bulk_adjust"
  /\ resp.outcome = "InsufficientStock"
  /\ \E p \in Products : stock[p] > 0

\* the ledger rows of product p, oldest first
MovesOf(p) == SelectSeq(movements, LAMBDA m : m.product = p)

\* C4: of two bulk_adjust calls on the same product that both commit, the one
\* that commits second has previous_stock equal to the new_stock of the one
\* that commits first: they never both start from the same previous_stock.
C4_NoLostUpdate ==
  \A p \in Products :
    LET s == MovesOf(p)
    IN \A k \in 1..(Len(s) - 1) :
         (s[k].reason = "manual_adjustment" /\ s[k + 1].reason = "manual_adjustment")
           => s[k + 1].previous_stock = s[k].new_stock

\* a bulk_adjust call holds the lock on a product that another bulk_adjust
\* call changed and committed while this one was in flight, and is about to
\* change it too
C4_Witness ==
  \E t \in Txns, p \in Products :
    /\ txn[t].kind = "bulk" /\ Unlocked(t) = {}
    /\ lock[p] = t
    /\ NetDelta(txn[t].items, p) # 0
    /\ Len(movements) > txn[t].startedAt
    /\ LET m == movements[Len(movements)]
       IN /\ m.product = p
          /\ m.reason = "manual_adjustment"
          /\ ReadStock(txn[t], p) = m.new_stock

\* C5: every StockMovement row ever created, by order placement, bulk
\* adjustment or cancellation, has new_stock = previous_stock + delta and
\* delta # 0.
C5_MovementArithmetic ==
  \A m \in AllRows : m.new_stock = m.previous_stock + m.delta /\ m.delta # 0

\* the ledger holds a row of each of the three causes
C5_Witness ==
  \A r \in {"order", "manual_adjustment", "order_cancelled"} :
    \E k \in 1..Len(movements) : movements[k].reason = r

\* the ledger rows a step adds for product p
NewMovesOf(p) == SelectSeq(NewMoves, LAMBDA m : m.product = p)

\* the rows of s lead from stock value a to stock value b, one write each
Chain(s, a, b) ==
  IF s = <<>> THEN a = b
  ELSE /\ s[1].previous_stock = a
       /\ s[Len(s)].new_stock = b
       /\ \A k \in 1..Len(s) : s[k].new_stock = s[k].previous_stock + s[k].delta
       /\ \A k \in 1..(Len(s) - 1) : s[k + 1].previous_stock = s[k].new_stock

\* C6: no operation changes a product's stock without adding, in the same
\* step, one StockMovement per change; no StockMovement is added without the
\* stock changing by its delta; a rejected mutation adds none: the rows a step
\* adds for a product lead from its stock before the step to its stock after.
C6_EveryStockChangeAudited ==
  [][/\ Len(movements') >= Len(movements)
     /\ SubSeq(movements', 1, Len(movements)) = movements
     /\ \A p \in Products : Chain(NewMovesOf(p), stock[p], stock'[p])]_vars

\* total quantity of product p on the lines of an order
RECURSIVE QtySum(_, _)
QtySum(items, K) ==
  IF K = {} THEN 0
  ELSE LET k == CHOOSE x \in K : TRUE
       IN items[k].quantity + QtySum(items, K \ {k})

LineQty(items, p) == QtySum(items, {k \in 1..Len(items) : items[k].product_id = p})

\* C7: a successful place_order creates one Order with status confirmed and
\* one OrderItem per input line, decreases each product's stock by exactly the
\* quantities of its lines, and adds exactly one StockMovement per line with
\* delta = -quantity, reason order and the new order's id.
C7_PlaceOrderEffect ==
  [][(resp'.op = "place_order" /\ resp'.outcome = "ok") =>
       \E t \in Txns :
         /\ txn[t].kind = "order" /\ txn[t].oid = resp'.ref /\ txn'[t].pc = "idle"
         /\ LET items == txn[t].items
                o == resp'.ref
            IN /\ orders[o] = NoOrder
               /\ orders'[o] = [status |-> "confirmed", items |-> items]
               /\ \A o2 \in OrderIds \ {o} : orders'[o2] = orders[o2]
               /\ SubSeq(movements', 1, Len(movements)) = movements
               /\ Len(NewMoves) = Len(items)
               /\ \A k \in 1..Len(items) :
                    /\ NewMoves[k].product = items[k].product_id
                    /\ NewMoves[k].delta = 0 - items[k].quantity
                    /\ NewMoves[k].reason = "order"
                    /\ NewMoves[k].order = o
               /\ \A p \in Products : stock'[p] = stock[p] - LineQty(items, p)]_vars

\* an order of two lines for two different products was placed
C7_Witness ==
  /\ resp.op = "place_order" /\ resp.outcome = "ok"
  /\ Len(orders[resp.ref].items) = 2
  /\ orders[resp.ref].items[1].product_id # orders[resp.ref].items[2].product_id

\* C8: cancel_order on a confirmed order increases the stock of each item's
\* product by exactly the item quantity, adds one StockMovement per item with
\* delta = +quantity, reason order_cancelled and that order's id, and sets the
\* order's status to cancelled.
C8_CancelOrderEffect ==
  [][(/\ resp'.op = "cancel_order" /\ resp'.outcome = "ok"
      /\ orders[resp'.ref].status = "confirmed") =>
       LET o == resp'.ref
           items == orders[o].items
       IN /\ orders'[o] = [status |-> "cancelled", items |-> items]
          /\ \A o2 \in OrderIds \ {o} : orders'[o2] = orders[o2]
          /\ SubSeq(movements', 1, Len(movements)) = movements
          /\ Len(NewMoves) = Len(items)
          /\ \A k \in 1..Len(items) :
               /\ NewMoves[k].product = items[k].product_id
               /\ NewMoves[k].delta = items[k].quantity
               /\ NewMoves[k].reason = "order_cancelled"
               /\ NewMoves[k].order = o
          /\ \A p \in Products : stock'[p] = stock[p] + LineQty(items, p)]_vars

\* an order was cancelled and the sold-out product is in stock again
C8_Witness ==
  /\ resp.op = "cancel_order" /\ resp.outcome = "ok"
  /\ orders[resp.ref].status = "cancelled"
  /\ \E k \in 1..Len(orders[resp.ref].items) :
       stock[orders[resp.ref].items[k].product_id] = InitStock

\* C9: a cancel_order call for an order that is already cancelled is rejected
\* with OrderAlreadyCancelled, always, and changes no stock and adds no
\* StockMovement; no unit of work is started for it, so it adds nothing back.
C9_SecondCancelRejected ==
  [][/\ (/\ resp'.op = "cancel_order" /\ txn' = txn
         /\ resp'.ref \in OrderIds
         /\ orders[resp'.ref].status = "cancelled")
          => /\ resp'.outcome = "OrderAlreadyCancelled"
             /\ UNCHANGED <<stock, orders, movements, lock>>
     /\ \A t \in Txns :
          (txn[t].kind # "cancel" /\ txn'[t].kind = "cancel")
            => orders[txn'[t].oid].status = "confirmed"]_vars

\* rows with reason order_cancelled that name order o
CancelRows(o) ==
  SelectSeq(movements, LAMBDA m : m.reason = "order_cancelled" /\ m.order = o)

\* a cancelled order was cancelled again; its quantities were added back once
C9_Witness ==
  /\ resp.op = "cancel_order" /\ resp.outcome = "OrderAlreadyCancelled"
  /\ orders[resp.ref].status = "cancelled"
  /\ Len(CancelRows(resp.ref)) = Len(orders[resp.ref].items)

\* C10: bulk_adjust nets all entries of a product into one delta before it
\* validates: the batch is accepted when no product id is unknown and no
\* stock + net delta is negative; an accepted batch changes each product's
\* stock by its net delta and adds one StockMovement with that delta for a
\* product whose net delta is not zero, none for a product whose net is zero.
C10_BulkAdjustNetsEntries ==
  [][\A t \in Txns : BulkEnds(t) =>
       LET adj == txn[t].items
       IN /\ resp'.op = "bulk_adjust"
          /\ (/\ \A k \in 1..Len(adj) : adj[k].product_id \in Products
              /\ \A p \in Products : stock[p] + BatchNet(adj, p) >= 0)
               => resp'.outcome = "ok"
          /\ resp'.outcome = "ok" =>
               \A p \in Products :
                 /\ stock'[p] = stock[p] + BatchNet(adj, p)
                 /\ IF BatchNet(adj, p) = 0
                    THEN NewMovesOf(p) = <<>>
                    ELSE /\ Len(NewMovesOf(p)) = 1
                         /\ NewMovesOf(p)[1].delta = BatchNet(adj, p)
                         /\ NewMovesOf(p)[1].reason = "manual_adjustment"]_vars

\* after an order sold a product out, a batch was accepted and added nothing
\* to the ledger: its entries cancel out
C10_Witness ==
  /\ resp.op = "bulk_adjust" /\ resp.outcome = "ok"
  /\ \E p \in Products : stock[p] = 0
  /\ movements # <<>>
  /\ movements[Len(movements)].reason = "order"

\* ids of a batch that are not in the catalogue
UnknownIds(adj) == {adj[k].product_id : k \in 1..Len(adj)} \ Products

\* C11: a bulk_adjust batch that names unknown product ids is rejected as a
\* whole with ProductNotFound, the error lists every unknown id of the batch
\* and nothing else, whether or not a product of the batch would also go
\* negative, and no row changes.
C11_BulkAdjustListsMissingIds ==
  [][\A t \in Txns :
       (BulkEnds(t) /\ UnknownIds(txn[t].items) # {})
         => /\ resp'.op = "bulk_adjust"
            /\ resp'.outcome = "ProductNotFound"
            /\ resp'.missing = UnknownIds(txn[t].items)
            /\ resp'.violations = {}
            /\ UNCHANGED <<stock, orders, movements>>]_vars

\* a batch was rejected with two unknown ids in its error
C11_Witness ==
  /\ resp.op = "bulk_adjust"
  /\ resp.outcome = "ProductNotFound"
  /\ Cardinality(resp.missing) = 2

\* products a batch would leave with negative stock, from the committed rows
WouldGoNegative(adj) == {p \in Products : stock[p] + BatchNet(adj, p) < 0}

\* C12: when products of a bulk_adjust batch would end with negative stock,
\* the rejection reports every one of them, each with its id, current stock,
\* net delta and computed stock = current stock + net delta.
C12_BulkAdjustReportsAllNegative ==
  [][\A t \in Txns :
       (/\ BulkEnds(t)
        /\ UnknownIds(txn[t].items) = {}
        /\ WouldGoNegative(txn[t].items) # {})
         => /\ resp'.outcome = "InsufficientStock"
            /\ resp'.violations =
                 {[product_id |-> p, current_stock |-> stock[p],
                   delta |-> BatchNet(txn[t].items, p),
                   computed_stock |-> stock[p] + BatchNet(txn[t].items, p)] :
                    p \in WouldGoNegative(txn[t].items)}]_vars

\* C14: the only change ever made to a persisted order is the transition
\* confirmed -> cancelled made by a successful cancel_order on it: its items
\* never change, a cancelled order never becomes confirmed or draft again and
\* no other operation alters its status.
C14_OrderOnlyCancelled ==
  [][\A o \in OrderIds :
       orders[o] # NoOrder =>
         \/ orders'[o] = orders[o]
         \/ /\ orders[o].status = "confirmed"
            /\ orders'[o] = [orders[o] EXCEPT !.status = "cancelled"]
            /\ resp' = Response("cancel_order", "ok", o)]_vars

\* the rows a request could write
data == <<stock, orders, movements, customers, lock, txn>>

\* a step of a write request on products or customers by a user who is not staff
NonStaffWrite ==
  \E user \in Users \ {"staff"} :
    \/ \E method \in WriteMethods :
         \/ \E p \in Products, v \in 0..MaxStock : ProductsView(user, method, p, v)
         \/ \E c \in CustomerIds, name \in CustomerNames :
              CustomersView(user, method, c, name)
    \/ \E adj \in SmallBatches : BulkAdjustView(user, adj)

\* a step of a read request on products or customers by any user
AnyRead ==
  \E user \in Users, method \in SafeMethods :
    \/ \E p \in Products, v \in 0..MaxStock : ProductsView(user, method, p, v)
    \/ \E c \in CustomerIds, name \in CustomerNames : CustomersView(user, method, c, name)

InvalidRequest ==
  \E t \in Txns :
    \/ \E items \in OrderInputs :
         /\ items = <<>> \/ \E k \in 1..Len(items) : items[k].quantity <= 0
         /\ PlaceOrderBegin(t, items)
    \/ \E adj \in BulkInputs :
         /\ adj = <<>> \/ \E k \in 1..Len(adj) : adj[k].delta = 0
         /\ BulkAdjustBegin(t, adj)

\* C17: place_order with an empty item list or a quantity <= 0, and
\* bulk_adjust with an empty list or a zero delta, are answered InvalidInput
\* and change no Product, Order, OrderItem or StockMovement row; no unit of
\* work is started for them.
C17_InvalidInputRejected ==
  [][\/ /\ resp'.outcome = "InvalidInput"
        /\ UNCHANGED <<stock, orders, movements, lock, txn, nextOrderId>>
     \/ ~InvalidRequest]_vars

\* after an order and an adjustment went through, a request was refused as
\* invalid
C17_Witness ==
  /\ resp.outcome = "InvalidInput"
  /\ \E k \in 1..Len(movements) : movements[k].reason = "order"
  /\ \E k \in 1..Len(movements) : movements[k].reason = "manual_adjustment"

\* in the committed state an order is cancelled only with a restoring row for
\* each of its lines, and restoring rows exist only for a cancelled order
CancelAllOrNothing ==
  \A o \in OrderIds :
    LET rows == CancelRows(o)
        items == orders[o].items
    IN /\ orders[o].status = "cancelled" =>
            \A k \in 1..Len(items) :
              \E j \in 1..Len(rows) :
                /\ rows[j].product = items[k].product_id
                /\ rows[j].delta = items[k].quantity
                /\ rows[j].new_stock = rows[j].previous_stock + items[k].quantity
       /\ orders[o].status # "cancelled" => rows = <<>>

\* a step in which the status of an order and the stock move together or not
\* at all
CancelStep ==
  \A o \in OrderIds :
    /\ (orders[o].status = "confirmed" /\ orders'[o].status = "cancelled") =>
         /\ \A p \in Products : stock'[p] = stock[p] + LineQty(orders[o].items, p)
         /\ Len(NewMoves) = Len(orders[o].items)
    /\ (\E k \in 1..Len(NewMoves) :
          NewMoves[k].reason = "order_cancelled" /\ NewMoves[k].order = o) =>
         orders'[o].status = "cancelled"

\* C18: cancel_order is all-or-nothing: in no committed state is an order
\* cancelled while the quantity of one of its items has not been added back,
\* nor is stock added back while the order is still confirmed; a cancel_order
\* call for an unknown order id is answered OrderNotFound and changes nothing.
C18_CancelAllOrNothing ==
  /\ []CancelAllOrNothing
  /\ [][/\ CancelStep
        /\ (/\ resp'.op = "cancel_order"
            /\ resp'.ref \notin OrderIds \/ orders[resp'.ref] = NoOrder) =>
             /\ resp'.outcome = "OrderNotFound"
             /\ UNCHANGED <<stock, orders, movements, lock, txn, nextOrderId>>]_vars

\* one order is cancelled with its quantity restored, and a cancel_order call
\* for an id that no order ever had was refused
C18_Witness ==
  /\ resp.op = "cancel_order" /\ resp.outcome = "OrderNotFound"
  /\ resp.ref \notin OrderIds
  /\ \E o \in OrderIds :
       /\ orders[o].status = "cancelled"
       /\ Len(CancelRows(o)) = Len(orders[o].items)

\* number of rows of s with the given reason, order and product
RowCount(s, reason, o, p) ==
  Len(SelectSeq(s, LAMBDA m : m.reason = reason /\ m.order = o /\ m.product = p))

\* number of lines of order o that name product p
LineCount(o, p) ==
  Cardinality({k \in 1..Len(orders[o].items) : orders[o].items[k].product_id = p})

\* a step adds at most one manual_adjustment row per product
OneManualRowPerProduct ==
  \A p \in Products :
    Len(SelectSeq(NewMoves, LAMBDA m : m.reason = "manual_adjustment" /\ m.product = p)) <= 1

NoDirtyRead ==
  \A t \in Txns : \A p \in DOMAIN txn[t].wstock :
    /\ lock[p] = t
    /\ Chain(SelectSeq(txn[t].wmoves, LAMBDA m : m.product = p), stock[p], txn[t].wstock[p])

\* the rows a call with these lines writes when it runs alone on the stock s
RECURSIVE SerialRows(_, _, _, _, _)
SerialRows(items, k, s, reason, oid) ==
  IF k > Len(items) THEN <<>>
  ELSE LET p == items[k].product_id
           d == IF reason = "order" THEN OrderDelta(items[k].quantity)
                                   ELSE CancelDelta(items[k].quantity)
       IN <<StockMovement(p, oid, s[p], d, reason)>>
            \o SerialRows(items, k + 1, [s EXCEPT ![p] = @ + d], reason, oid)

\* the stock after the rows, starting from s
SerialStock(s, rows) ==
  [p \in Products |->
     LET r == SelectSeq(rows, LAMBDA m : m.product = p)
     IN IF r = <<>> THEN s[p] ELSE r[Len(r)].new_stock]

\* the call of worker t commits in this step
Commits(t) == txn[t].pc = "run" /\ txn'[t].pc = "idle" /\ resp'.outcome = "ok"

\* the step has the effect that the order or cancellation of worker t has when
\* it runs alone on the committed state before the step
SerialLinesEffect(t, reason) ==
  LET rows == SerialRows(txn[t].items, 1, stock, reason, txn[t].oid)
  IN /\ \A k \in 1..Len(rows) : rows[k].new_stock >= 0
     /\ movements' = movements \o rows
     /\ stock' = SerialStock(stock, rows)

\* the same for the batch of worker t
SerialBatchEffect(t) ==
  /\ orders' = orders
  /\ Len(movements') >= Len(movements)
  /\ SubSeq(movements', 1, Len(movements)) = movements
  /\ \A p \in Products :
       LET d == BatchNet(txn[t].items, p)
       IN /\ stock[p] + d >= 0
          /\ stock'[p] = stock[p] + d
          /\ NewMovesOf(p) = IF d = 0 THEN <<>>
                             ELSE <<StockMovement(p, 0, stock[p], d, "manual_adjustment")>>

\* another cancel_order call for the same order committed while the call of
\* worker t was in flight
OverlappingCancel(t) ==
  \E k \in (txn[t].startedAt + 1)..Len(movements) :
    movements[k].reason = "order_cancelled" /\ movements[k].order = txn[t].oid

\* every commit is the call run alone on the state the commits before it left
SerialCommit(t, cancelAccepted) ==
  Commits(t) =>
    CASE txn[t].kind = "order" ->
           /\ orders[txn[t].oid] = NoOrder
           /\ orders' = [orders EXCEPT ![txn[t].oid] =
                           [status |-> "confirmed", items |-> txn[t].items]]
           /\ SerialLinesEffect(t, "order")
      [] txn[t].kind = "cancel" ->
           /\ cancelAccepted
           /\ txn[t].items = orders[txn[t].oid].items
           /\ orders' = [orders EXCEPT ![txn[t].oid].status = "cancelled"]
           /\ SerialLinesEffect(t, "order_cancelled")
      [] OTHER -> SerialBatchEffect(t)

RECURSIVE DeltaSum(_)
DeltaSum(s) == IF s = <<>> THEN 0 ELSE Head(s).delta + DeltaSum(Tail(s))

\* sum of f over the orders in O
RECURSIVE OrderSum(_, _)
OrderSum(f(_), O) ==
  IF O = {} THEN 0
  ELSE LET o == CHOOSE x \in O : TRUE
       IN f(o) + OrderSum(f, O \ {o})

\* sum of the deltas of the manual_adjustment rows of product p
ManualSum(p) ==
  DeltaSum(SelectSeq(movements, LAMBDA m : m.reason = "manual_adjustment" /\ m.product = p))

\* quantity of product p on the lines of the orders that are not cancelled
LiveQty(p) ==
  LET q(o) == LineQty(orders[o].items, p)
  IN OrderSum(q, {o \in OrderIds : orders[o].status \notin {"none", "cancelled"}})

\* what the restoring rows of cancelled orders added to product p beyond the
\* quantities of those orders' lines
RestoredTwice(p) ==
  LET extra(o) ==
        DeltaSum(SelectSeq(CancelRows(o), LAMBDA m : m.product = p))
          - LineQty(orders[o].items, p)
  IN OrderSum(extra, {o \in OrderIds : orders[o].status = "cancelled"})

HandlerRuns(r) == req[r].pc = "sent" /\ ~req[r].retry /\ req'[r].retry

\* the handler of r, running while a refresh is pending, awaits that refresh
\* and posts none of its own
AwaitsPending(r) ==
  /\ req'[r].pc = "await"
  /\ req'[r].awaits \in refreshPosts
  /\ refreshPosts' = refreshPosts

\* promise k settles in this step with a new access token, and every handler
\* that awaited it stores the token and sends its request again with it
RetriedWithNewToken ==
  \A k \in refreshPosts \ refreshPosts' :
    session'.issued > session.issued =>
      /\ Awaiting(k) # {}
      /\ localStorage'.accessToken = session'.issued
      /\ \A r \in Awaiting(k) :
           /\ req'[r].pc = "sent"
           /\ req'[r].Authorization = session'.issued
           /\ req'[r].sends = req[r].sends + 1

\* C21 (as stated): however many requests fail with 401, at most one POST
\* /api/token/refresh/ is in flight at any moment; every 401 handler that
\* runs while a refresh is pending awaits that same refresh, and if it yields
\* a new access token each handler retries its own request with it.
C21_SingleFlightRefresh ==
  /\ [](Cardinality(refreshPosts) <= 1)
  /\ [][/\ \A r \in ReqIds : (HandlerRuns(r) /\ refreshPosts # {}) => AwaitsPending(r)
        /\ RetriedWithNewToken]_vars

\* C21 (amended): the same for every 401 handler that finds a refresh token
\* stored; a handler that runs after a logout has removed the refresh token
\* does not await the pending refresh but rejects its request and reports
\* the session as expired.
C21_SingleFlightRefreshWhileStored ==
  /\ [](Cardinality(refreshPosts) <= 1)
  /\ [](\A r \in ReqIds : req[r].pc = "await" =>
          req[r].awaits = refreshInFlight /\ refreshInFlight \in refreshPosts)
  /\ [][/\ \A r \in ReqIds :
             (HandlerRuns(r) /\ refreshPosts # {}) =>
               IF localStorage.refreshToken
               THEN AwaitsPending(r)
               ELSE req'[r].pc = "rejected" /\ refreshPosts' = refreshPosts
        /\ RetriedWithNewToken]_vars

\* all requests have failed with 401 and await the one refresh in flight
C21_Witness ==
  /\ Cardinality(refreshPosts) = 1
  /\ \A r \in ReqIds : req[r].pc = "await" /\ req[r].awaits \in refreshPosts

\* a 401 is not recovered in this step: a handler finds no refresh token, or
\* the refresh it awaited yields no access token
Unrecovered ==
  \E r \in ReqIds : (HandlerRuns(r) \/ req[r].pc = "await") /\ req'[r].pc = "rejected"

\* handleLogout runs, or handleLoginSubmit stores the tokens of a successful
\* login, in this step
LogoutRuns == session'.loggedOut /\ session'.clicks > session.clicks

LoginSucceeds == login = "sent" /\ login' = "idle" /\ session'.issued > session.issued

\* auth:expired is dispatched once by the first 401 that is not recovered and
\* not again before a successful login or a logout
ExpiredOnce ==
  /\ Unrecovered => /\ authExpiredNotified'
                    /\ session'.dispatched =
                         session.dispatched + (IF authExpiredNotified THEN 0 ELSE 1)
  /\ session'.dispatched # session.dispatched => Unrecovered
  /\ (authExpiredNotified /\ ~authExpiredNotified') => (LogoutRuns \/ LoginSucceeds)

SentNow(r) == req'[r].sends > req[r].sends

\* C27: after handleLogout, localStorage holds no accessToken and no request
\* that is sent carries an Authorization header until a login succeeds, even
\* if a token refresh was in flight when the user logged out.
C27_LoggedOutSendsNoToken ==
  /\ [](session.loggedOut => localStorage.accessToken = NoToken)
  /\ [][\A r \in ReqIds :
          (session.loggedOut /\ SentNow(r)) => req'[r].Authorization = NoToken]_vars

\* request r has been sent and its caller has no answer yet
Pending(r) == req[r].pc \in {"sent", "await"}

\* the promise returned to the caller of r is settled
Settled(r) == req[r].pc \in {"resolved", "rejected"}

\* a request is sent a second time only by the handler of its first 401, and
\* a failure of the second sending is rejected to the caller
RetriedOnce ==
  \A r \in ReqIds :
    /\ (SentNow(r) /\ req[r].sends > 0) => (req[r].pc = "await" /\ req[r].sends = 1)
    /\ (req[r].pc = "sent" /\ req[r].retry /\ req'[r] # req[r]) => Settled(r)'

\* a refresh is posted only by the handler of the first 401 of an API request
RefreshOnlyForApi401 ==
  refreshPosts' \ refreshPosts # {} => \E r \in ReqIds : HandlerRuns(r)

\* C23: a request that fails with 401 is retried at most once; a 401 from a
\* /api/token/ endpoint never triggers a refresh; the interceptor cannot
\* loop: every request that was sent is eventually settled, a failing one by
\* rejection to its caller.
C23_RetryOnceNoLoop ==
  /\ [](\A r \in ReqIds : req[r].sends <= 2)
  /\ [](\A url \in {LoginUrl, RefreshUrl}, retry \in BOOLEAN : ~Recoverable(401, retry, url))
  /\ [][RetriedOnce /\ RefreshOnlyForApi401]_vars
  /\ \A r \in ReqIds : Pending(r) ~> Settled(r)

\* a request was sent twice and the second 401 was rejected to its caller
\* without another refresh
C23_Witness ==
  \E r \in ReqIds :
    /\ req[r].pc = "rejected" /\ req[r].sends = 2 /\ req[r].retry
    /\ session.refreshes = 1 /\ refreshPosts = {}

\* the POST of component a succeeds in this step
Succeeds(a) == posting[a] # NotPosting /\ posting'[a] = NotPosting /\ dataVersion' > dataVersion

\* C29: after every successful stock-changing action in the dashboard (new
\* order, single-product adjust, bulk adjust, order cancel) the dashboard
\* summary, the low-stock table and the product list are all reloaded: each
\* has loaded the data as the action left it.
C29_AllViewsReloaded ==
  [][\A a \in Actions : Succeeds(a) => \A c \in StockViews : loaded'[c] = dataVersion']_vars

\* line is an entry for a product or an unknown key: not blank, no comment
IsEntry(line) == ~line.hash /\ line.key # NoKey

\* the entry has a delta that is a whole number other than 0
WellFormed(line) ==
  /\ line.deltaStr # ""
  /\ IsInteger(Number(line.deltaStr))
  /\ Number(line.deltaStr).halves # 0

AllLinesParse(text) == \A i \in 1..Len(text) : IsEntry(text[i]) => WellFormed(text[i])

AllKeysResolve(text) == \A i \in 1..Len(text) : IsEntry(text[i]) => text[i].key.n \in Products

\* the sum of the deltas of the lines of text that name product p, by its
\* SKU or by its id
RECURSIVE LineSum(_, _)
LineSum(text, p) ==
  IF text = <<>>
  THEN 0
  ELSE LET line == text[Len(text)]
       IN LineSum(SubSeq(text, 1, Len(text) - 1), p)
            + (IF IsEntry(line) /\ line.key.n = p
               THEN Number(line.deltaStr).halves \div 2
               ELSE 0)

\* the POST is sent in this step
PostSent == calls'.posts > calls.posts

\* C28: the payload that BulkAdjustStockModal posts has exactly one entry per
\* distinct resolved product id whose summed delta is not 0, the delta being
\* the sum of all input lines for that product, named by SKU or by numeric
\* id; it has no entry with delta 0, and when everything nets to zero no
\* request is sent.
C28_PayloadNetsPerProduct ==
  /\ [](payload # <<>> =>
          /\ \A i, j \in 1..Len(payload) :
               payload[i].product_id = payload[j].product_id => i = j
          /\ \A k \in 1..Len(payload) :
               payload[k].delta # 0 /\ payload[k].product_id \in Products
          /\ \A p \in Products :
               IF LineSum(raw, p) # 0
               THEN \E k \in 1..Len(payload) :
                      payload[k] = [product_id |-> p, delta |-> LineSum(raw, p)]
               ELSE \A k \in 1..Len(payload) : payload[k].product_id # p)
  /\ [][(AllLinesParse(raw) /\ \A p \in Products : LineSum(raw, p) = 0) => ~PostSent]_vars

\* a POST is in flight for a text that names one product by its SKU and by
\* its id with deltas that cancel, and that product is not in the payload
C28_Witness ==
  /\ payload # <<>>
  /\ \E p \in Products, i, j \in 1..Len(raw) :
       /\ raw[i].key = [digits |-> TRUE, n |-> p]
       /\ raw[j].key = [digits |-> FALSE, n |-> p]
       /\ LineSum(raw, p) = 0
       /\ \A k \in 1..Len(payload) : payload[k].product_id # p

\* the POST of the dialog is answered with success in this step
PostSucceeds == payload # <<>> /\ payload' = <<>> /\ notice' = "success"

\* onClose of the dialog is called and closes it
OnCloseCalled == bulkOpen /\ ~bulkOpen'

\* no request is sent for a text with a line that does not parse, a key that
\* does not resolve or a product that would go below 0
NoPostUnlessValid ==
  PostSent =>
    /\ AllLinesParse(raw)
    /\ AllKeysResolve(raw)
    /\ \A p \in Products : stock[p] + LineSum(raw, p) >= 0

\* C30 (as stated): BulkAdjustStockModal sends no request when any line
\* fails to parse (missing delta, non-integer or zero delta), when any SKU
\* or product id cannot be resolved, or when any product with known stock
\* would go negative; onSuccess and onClose are called only after a
\* successful POST.
C30_NoPostOnErrors ==
  [][/\ NoPostUnlessValid
     /\ calls'.onSuccess > calls.onSuccess => PostSucceeds
     /\ OnCloseCalled => PostSucceeds]_vars

\* C30 (amended): the same, but onClose is called by handleOk only after a
\* successful POST; the Cancel button of the dialog calls onClose at any
\* time, whatever handleOk is doing.
C30_NoPostOnErrorsButCancel ==
  [][/\ NoPostUnlessValid
     /\ calls'.onSuccess > calls.onSuccess => PostSucceeds
     /\ OnCloseCalled => (PostSucceeds \/ UNCHANGED dialog)]_vars

\* handleOk has refused a text whose lines all parse and resolve because a
\* product would go below 0: nothing was posted and the dialog is still open
C30_Witness ==
  /\ notice = "error" /\ calls = NoCalls /\ ~submitting /\ lookups = <<>> /\ bulkOpen
  /\ raw # <<>> /\ AllLinesParse(raw) /\ AllKeysResolve(raw)
  /\ \E p \in Products : stock[p] + LineSum(raw, p) < 0
====
